---- MODULE Spec2Model ----
(***************************************************************************)
(* Model of src/subtitle_handler.py: render_subtitles_to_zip fans the cues *)
(* of a subtitle track out to a ThreadPoolExecutor, collects one outcome   *)
(* per future with as_completed, raises an aggregate RuntimeError when any *)
(* unit failed, and otherwise writes the artifacts into a zip archive in   *)
(* ascending index order, unlinking each artifact after it is written.     *)
(*                                                                         *)
(* The main thread is modelled by pc; the pool's worker threads are        *)
(* anonymous: a unit k is on a worker while upc[k] is "render".            *)
(* prepare_tts_input_with_context and generate_speech are external: each   *)
(* call either returns or raises an Exception, chosen when it is made.     *)
(***************************************************************************)
EXTENDS Integers, Sequences, FiniteSets, TLC

\* ---------------------------------------------------------------- bounds
MaxCues == 3

MaxWorkers == 2

\* the cue indices a track may carry: caller-assigned, unique, not
\* contiguous, of one to five digits
IndexPool == <<12, 10000, 3, 7, 9, 10>>

\* the rendering options of a call: response_format, as a character
\* sequence, and sanitize_text.  The format is read only by the archive
\* step and the flag only inside a unit, so each value is taken once.
RenderOptions ==
    { [response_format |-> <<"m", "p", "3">>, sanitize_text |-> TRUE],
      [response_format |-> <<"w", "a", "v">>, sanitize_text |-> FALSE] }

VARIABLES
    subtitles,        \* the cue sequence handed to the call
    response_format,  \* the format extension
    sanitize_text,    \* whether normalization runs inside each unit
    max_workers,      \* the worker limit handed to the call
    pc,               \* the calling thread's position
    num_threads,      \* executor: worker threads started so far
    idle_semaphore,   \* executor: the idle-worker semaphore
    work_queue,       \* executor: submitted work items not yet taken
    submitted,        \* number of futures in future_map
    fstate,           \* per unit: state of its Future
    fvalue,           \* per unit: result or exception stored in its Future
    upc,              \* per unit: the worker's position in _render_segment
    text,             \* per unit: the local variable text
    yielded,          \* futures as_completed has handed to the loop body
    results,          \* list of (index, path)
    errors,           \* list of error messages
    files,            \* per artifact path: its content, or NoFile
    zip_exists,       \* whether the archive file was created
    archive,          \* the archive's entries, in the order written
    todo,             \* the sorted results still to be archived
    retval,           \* the value returned
    raised,           \* the message of the RuntimeError raised
    norm_calls,       \* per unit: calls of prepare_tts_input_with_context
    synth_calls       \* per unit: calls of generate_speech

vars == << subtitles, response_format, sanitize_text, max_workers, pc,
           num_threads, idle_semaphore, work_queue, submitted, fstate,
           fvalue, upc, text, yielded, results, errors, files, zip_exists,
           archive, todo, retval, raised, norm_calls, synth_calls >>

inputs == << subtitles, response_format, sanitize_text, max_workers >>

\* ------------------------------------------------------------ data types
Units == 1 .. Len(subtitles)

NoFile == << >>

NoValue == [ok |-> FALSE, index |-> 0, path |-> 0, exc |-> "none"]

\* the cue at position k of a track whose indices are ix
Subtitle(ix, k) ==
    [index |-> ix[k], start |-> ToString(2 * k - 1), end |-> ToString(2 * k),
     content |-> <<"raw", k>>]

\* the first n pool indices, rotated by r and read forwards or backwards:
\* for n <= 3 these are all orders of the n indices, and for every n they
\* hold the ascending track, the descending one and unsorted ones
IndexOrders(n) ==
    { [k \in 1 .. n |-> IndexPool[(((IF fwd THEN k ELSE n + 1 - k) + r - 1) % n) + 1]] :
        r \in 0 .. n - 1, fwd \in BOOLEAN }

\* the tracks of at most MaxCues cues; the indices of a track are unique
CueSeqs ==
    UNION { { [k \in 1 .. n |-> Subtitle(ix, k)] : ix \in IndexOrders(n) } :
            n \in 0 .. MaxCues }

\* ------------------------------------------------------- pure functions
DigitChar(d) == <<"0", "1", "2", "3", "4", "5", "6", "7", "8", "9">>[d + 1]

RECURSIVE Digits(_)
\* the decimal numeral of n >= 0, most significant digit first
Digits(n) ==
    IF n < 10 THEN <<DigitChar(n)>>
    ELSE Digits(n \div 10) \o <<DigitChar(n % 10)>>

RECURSIVE ZeroPad(_, _)
\* s left-padded with "0" to a width of at least w
ZeroPad(s, w) == IF Len(s) >= w THEN s ELSE ZeroPad(<<"0">> \o s, w)

\* mutant: the index is written without padding
ArcNameUnpadded(index, fmt) == Digits(index) \o <<".">> \o fmt

\* f"{index:04d}.{response_format}"
ArcName(index, fmt) == ZeroPad(Digits(index), 4) \o <<".">> \o fmt

\* mutant: the text is handed on as it came
NotNormalized(t) == t

\* prepare_tts_input_with_context(text), when it returns
Normalized(t) == <<"norm", t[2]>>

\* the content of the artifact generate_speech writes for the text t
Audio(t) == <<"audio", t[1], t[2]>>

\* mutant: the item is put in front, whatever its key
InsertAtFront(item, s) == <<item>> \o s

RECURSIVE InsertByIndex(_, _)
\* item placed into the sorted list s after every element whose key is
\* not greater: equal keys keep their order (sorted() is stable)
InsertByIndex(item, s) ==
    IF s = << >> THEN <<item>>
    ELSE IF item[1] < Head(s)[1] THEN <<item>> \o s
    ELSE <<Head(s)>> \o InsertByIndex(item, Tail(s))

\* mutant: the results are archived in the order they were collected
NotSorted(rs) == rs

\* mutant: the results are archived last collected first
CollectedReversed(rs) == [i \in 1 .. Len(rs) |-> rs[Len(rs) + 1 - i]]

RECURSIVE SortedByIndex(_)
\* sorted(results, key=lambda item: item[0])
SortedByIndex(rs) ==
    IF rs = << >> THEN << >>
    ELSE InsertByIndex(rs[Len(rs)], SortedByIndex(SubSeq(rs, 1, Len(rs) - 1)))

\* the f-string of lines 74-77, as a sequence of its parts
ErrorMessage(subtitle, exc) ==
    << "Failed to render subtitle ", ToString(subtitle.index), " (",
       subtitle.start, " -> ", subtitle.end, "): ", exc >>

\* mutant: only the first two messages are joined
JoinFirstTwo(msgs) ==
    IF msgs = << >> THEN << >>
    ELSE IF Len(msgs) = 1 THEN msgs[1]
    ELSE msgs[1] \o <<"; ">> \o msgs[2]

RECURSIVE Join(_)
\* "; ".join(msgs)
Join(msgs) ==
    IF msgs = << >> THEN << >>
    ELSE IF Len(msgs) = 1 THEN msgs[1]
    ELSE msgs[1] \o <<"; ">> \o Join(Tail(msgs))

\* mutant: only a negative worker count is rejected, zero is let through
PoolRejectsNegativeOnly(w) == w < 0

\* ThreadPoolExecutor(max_workers=w) raises ValueError for w <= 0
PoolRejects(w) == w <= 0

\* units whose _render_segment call is executing on a worker thread
Running == { k \in Units : upc[k] = "render" }

\* ------------------------------------------------------------------ Init
Init ==
    /\ subtitles \in CueSeqs
    /\ \E o \in RenderOptions :
          /\ response_format = o.response_format
          /\ sanitize_text = o.sanitize_text
    /\ max_workers \in -1 .. MaxWorkers
    /\ pc = "call"
    /\ num_threads = 0
    /\ idle_semaphore = 0
    /\ work_queue = << >>
    /\ submitted = 0
    /\ fstate = [k \in Units |-> "none"]
    /\ fvalue = [k \in Units |-> NoValue]
    /\ upc = [k \in Units |-> "none"]
    /\ text = [k \in Units |-> << >>]
    /\ yielded = {}
    /\ results = << >>
    /\ errors = << >>
    /\ files = [k \in Units |-> NoFile]
    /\ zip_exists = FALSE
    /\ archive = << >>
    /\ todo = << >>
    /\ retval = << >>
    /\ raised = << >>
    /\ norm_calls = [k \in Units |-> 0]
    /\ synth_calls = [k \in Units |-> 0]

\* --------------------------------------------------------------- helpers
\* mutant: a thread is started for every submission
MayStartThreadUnbounded(n, w) == TRUE

\* mutant: the last permitted thread is never started
MayStartThreadOffByOne(n, w) == n + 1 < w

\* _adjust_thread_count starts a thread only below the limit
MayStartThread(n, w) == n < w

\* mutant: the handler catches synthesis errors only
IsSynthesisErrorOnly(exc) == exc = "SynthesisError"

\* `except Exception` of line 73: what a unit raises is an Exception
IsException(exc) == exc \in {"NormalizationError", "SynthesisError"}

\* mutant: the loop is left at the first failure
LoopExhaustedOrFailed(y) == y = Units \/ errors # << >>

\* as_completed(future_map) is exhausted once every future was yielded
LoopExhausted(y) == y = Units

\* leaving the with block: shutdown(wait=True) joins the worker threads
PoolJoined == Running = {} /\ work_queue = << >>

\* mutant: the batch fails only when nothing was rendered
BatchFailedIfNoResult(errs) == errs # << >> /\ results = << >>

\* `if errors:` of line 82
BatchFailed(errs) == errs # << >>

\* mutant: only the first failure observed is reported
FirstMessageOnly(errs) == errs[1]

\* the message of the RuntimeError of line 83
AggregateMessage(errs) == Join(errs)

\* ------------------------------------------------- the calling thread
\* line 60: the executor is constructed
Construct ==
    /\ pc = "call"
    /\ pc' = IF PoolRejects(max_workers) THEN "ValueError"
             ELSE IF subtitles = << >> THEN "collect" ELSE "submit"
    /\ UNCHANGED << inputs, num_threads, idle_semaphore, work_queue, submitted,
                    fstate, fvalue, upc, text, yielded, results, errors, files,
                    zip_exists, archive, todo, retval, raised, norm_calls,
                    synth_calls >>

\* lines 61-66: executor.submit for the next cue of the iteration; after
\* the last cue the loop over as_completed (line 68) starts
Submit ==
    /\ pc = "submit"
    /\ submitted < Len(subtitles)
    /\ submitted' = submitted + 1
    /\ pc' = IF submitted' = Len(subtitles) THEN "collect" ELSE "submit"
    /\ fstate' = [fstate EXCEPT ![submitted + 1] = "PENDING"]
    /\ work_queue' = Append(work_queue, submitted + 1)
    /\ IF idle_semaphore > 0
          THEN /\ idle_semaphore' = idle_semaphore - 1
               /\ UNCHANGED num_threads
          ELSE /\ num_threads' =
                     IF MayStartThread(num_threads, max_workers)
                       THEN num_threads + 1 ELSE num_threads
               /\ UNCHANGED idle_semaphore
    /\ UNCHANGED << inputs, fvalue, upc, text, yielded, results, errors,
                    files, zip_exists, archive, todo, retval, raised,
                    norm_calls, synth_calls >>

\* mutant: a unit that failed is submitted once more
CollectAndRetry(k) ==
    /\ pc = "collect"
    /\ k \notin yielded
    /\ fstate[k] = "FINISHED"
    /\ IF fvalue[k].ok
          THEN /\ results' = Append(results, <<fvalue[k].index, fvalue[k].path>>)
               /\ yielded' = yielded \cup {k}
               /\ UNCHANGED << errors, work_queue, fstate, idle_semaphore >>
          ELSE IF synth_calls[k] + norm_calls[k] < 3
          THEN /\ work_queue' = Append(work_queue, k)
               /\ fstate' = [fstate EXCEPT ![k] = "PENDING"]
               /\ idle_semaphore' = idle_semaphore - 1
               /\ UNCHANGED << results, errors, yielded >>
          ELSE /\ errors' = Append(errors, ErrorMessage(subtitles[k], fvalue[k].exc))
               /\ yielded' = yielded \cup {k}
               /\ UNCHANGED << results, work_queue, fstate, idle_semaphore >>
    /\ UNCHANGED << inputs, pc, num_threads, submitted, fvalue, upc, text, files,
                    zip_exists, archive, todo, retval, raised, norm_calls,
                    synth_calls >>

\* lines 68-80: one iteration of the loop over as_completed
Collect(k) ==
    /\ pc = "collect"
    /\ k \notin yielded
    /\ fstate[k] = "FINISHED"
    /\ yielded' = yielded \cup {k}
    /\ IF fvalue[k].ok
          THEN /\ results' = Append(results, <<fvalue[k].index, fvalue[k].path>>)
               /\ UNCHANGED << errors, pc >>
          ELSE IF IsException(fvalue[k].exc)
          THEN /\ errors' = Append(errors, ErrorMessage(subtitles[k], fvalue[k].exc))
               /\ UNCHANGED << results, pc >>
          ELSE /\ pc' = "propagated"
               /\ UNCHANGED << results, errors >>
    /\ UNCHANGED << inputs, num_threads, idle_semaphore, work_queue, submitted,
                    fstate, fvalue, upc, text, files, zip_exists, archive, todo,
                    retval, raised, norm_calls, synth_calls >>

\* mutant: the first failure ends the pool phase without waiting
ExitPoolOnFirstFailure ==
    /\ pc = "collect"
    /\ errors # << >> \/ (LoopExhausted(yielded) /\ PoolJoined)
    /\ pc' = "check"
    /\ UNCHANGED << inputs, num_threads, idle_semaphore, work_queue, submitted,
                    fstate, fvalue, upc, text, yielded, results, errors, files,
                    zip_exists, archive, todo, retval, raised, norm_calls,
                    synth_calls >>

\* lines 68, 60: the loop ends and the with block is left
ExitPool ==
    /\ pc = "collect"
    /\ LoopExhausted(yielded)
    /\ PoolJoined
    /\ pc' = "check"
    /\ UNCHANGED << inputs, num_threads, idle_semaphore, work_queue, submitted,
                    fstate, fvalue, upc, text, yielded, results, errors, files,
                    zip_exists, archive, todo, retval, raised, norm_calls,
                    synth_calls >>

\* mutant: a failed batch removes the artifacts before it raises
CheckWithCleanup ==
    /\ pc = "check"
    /\ IF BatchFailed(errors)
          THEN /\ pc' = "RuntimeError"
               /\ raised' = AggregateMessage(errors)
               /\ files' = [k \in Units |-> NoFile]
               /\ UNCHANGED << zip_exists, todo >>
          ELSE /\ zip_exists' = TRUE
               /\ todo' = SortedByIndex(results)
               /\ pc' = IF todo' = << >> THEN "zip_close" ELSE "zip_write"
               /\ UNCHANGED << raised, files >>
    /\ UNCHANGED << inputs, num_threads, idle_semaphore, work_queue, submitted,
                    fstate, fvalue, upc, text, yielded, results, errors,
                    archive, retval, norm_calls, synth_calls >>

\* lines 82-87: raise the aggregate error, or create the archive and sort
Check ==
    /\ pc = "check"
    /\ IF BatchFailed(errors)
          THEN /\ pc' = "RuntimeError"
               /\ raised' = AggregateMessage(errors)
               /\ UNCHANGED << zip_exists, todo >>
          ELSE /\ zip_exists' = TRUE
               /\ todo' = SortedByIndex(results)
               /\ pc' = IF todo' = << >> THEN "zip_close" ELSE "zip_write"
               /\ UNCHANGED raised
    /\ UNCHANGED << inputs, num_threads, idle_semaphore, work_queue, submitted,
                    fstate, fvalue, upc, text, yielded, results, errors, files,
                    archive, retval, norm_calls, synth_calls >>

\* mutant: every entry is filled from the clip of the last result
ZipWriteLastClip ==
    /\ pc = "zip_write"
    /\ IF files[todo[Len(todo)][2]] = NoFile
          THEN /\ pc' = "FileNotFoundError"
               /\ UNCHANGED archive
          ELSE /\ archive' = Append(archive,
                       [name |-> ArcName(Head(todo)[1], response_format),
                        content |-> files[todo[Len(todo)][2]]])
               /\ pc' = "zip_unlink"
    /\ UNCHANGED << inputs, num_threads, idle_semaphore, work_queue, submitted,
                    fstate, fvalue, upc, text, yielded, results, errors, files,
                    zip_exists, todo, retval, raised, norm_calls, synth_calls >>

\* lines 88-90: archive.write(clip_path, arcname=arcname)
ZipWrite ==
    /\ pc = "zip_write"
    /\ IF files[Head(todo)[2]] = NoFile
          THEN /\ pc' = "FileNotFoundError"
               /\ UNCHANGED archive
          ELSE /\ archive' = Append(archive,
                       [name |-> ArcName(Head(todo)[1], response_format),
                        content |-> files[Head(todo)[2]]])
               /\ pc' = "zip_unlink"
    /\ UNCHANGED << inputs, num_threads, idle_semaphore, work_queue, submitted,
                    fstate, fvalue, upc, text, yielded, results, errors, files,
                    zip_exists, todo, retval, raised, norm_calls, synth_calls >>

\* mutant: unlink without missing_ok raises when the file is gone
ZipUnlinkStrict ==
    /\ pc = "zip_unlink"
    /\ IF files[Head(todo)[2]] = NoFile
          THEN /\ pc' = "FileNotFoundError"
               /\ UNCHANGED << files, todo >>
          ELSE /\ files' = [files EXCEPT ![Head(todo)[2]] = NoFile]
               /\ todo' = Tail(todo)
               /\ pc' = IF todo' = << >> THEN "zip_close" ELSE "zip_write"
    /\ UNCHANGED << inputs, num_threads, idle_semaphore, work_queue, submitted,
                    fstate, fvalue, upc, text, yielded, results, errors,
                    zip_exists, archive, retval, raised, norm_calls,
                    synth_calls >>

\* line 91: clip_path.unlink(missing_ok=True)
ZipUnlink ==
    /\ pc = "zip_unlink"
    /\ files' = [files EXCEPT ![Head(todo)[2]] = NoFile]
    /\ todo' = Tail(todo)
    /\ pc' = IF todo' = << >> THEN "zip_close" ELSE "zip_write"
    /\ UNCHANGED << inputs, num_threads, idle_semaphore, work_queue, submitted,
                    fstate, fvalue, upc, text, yielded, results, errors,
                    zip_exists, archive, retval, raised, norm_calls,
                    synth_calls >>

\* line 93: return zip_path, len(results)
Return ==
    /\ pc = "zip_close"
    /\ pc' = "returned"
    /\ retval' = <<"zip_path", Len(results)>>
    /\ UNCHANGED << inputs, num_threads, idle_semaphore, work_queue, submitted,
                    fstate, fvalue, upc, text, yielded, results, errors, files,
                    zip_exists, archive, todo, raised, norm_calls, synth_calls >>

\* ------------------------------------------------- the worker threads
\* a free worker takes the oldest work item; its future is RUNNING
WorkerStart(k) ==
    /\ work_queue # << >>
    /\ k = Head(work_queue)
    /\ Cardinality(Running) < num_threads
    /\ work_queue' = Tail(work_queue)
    /\ fstate' = [fstate EXCEPT ![k] = "RUNNING"]
    /\ upc' = [upc EXCEPT ![k] = "render"]
    /\ UNCHANGED << inputs, pc, num_threads, idle_semaphore, submitted, fvalue,
                    text, yielded, results, errors, files, zip_exists, archive,
                    todo, retval, raised, norm_calls, synth_calls >>

\* the future of unit k finished with the value v; the worker releases
\* the idle semaphore
Finish(k, v) ==
    /\ fvalue' = [fvalue EXCEPT ![k] = v]
    /\ fstate' = [fstate EXCEPT ![k] = "FINISHED"]
    /\ upc' = [upc EXCEPT ![k] = "done"]
    /\ idle_semaphore' = idle_semaphore + 1

\* mutant: the worker appends its own result to the shared list
RenderSegmentAppends(k) ==
    /\ upc[k] = "render"
    /\ \/ /\ sanitize_text
          /\ norm_calls' = [norm_calls EXCEPT ![k] = @ + 1]
          /\ text' = [text EXCEPT ![k] = subtitles[k].content]
          /\ Finish(k, [NoValue EXCEPT !.exc = "NormalizationError"])
          /\ UNCHANGED << synth_calls, files, results >>
       \/ /\ norm_calls' = [norm_calls EXCEPT ![k] = IF sanitize_text THEN @ + 1 ELSE @]
          /\ text' = [text EXCEPT ![k] = IF sanitize_text
                                           THEN Normalized(subtitles[k].content)
                                           ELSE subtitles[k].content]
          /\ synth_calls' = [synth_calls EXCEPT ![k] = @ + 1]
          /\ Finish(k, [NoValue EXCEPT !.exc = "SynthesisError"])
          /\ UNCHANGED << files, results >>
       \/ /\ norm_calls' = [norm_calls EXCEPT ![k] = IF sanitize_text THEN @ + 1 ELSE @]
          /\ text' = [text EXCEPT ![k] = IF sanitize_text
                                           THEN Normalized(subtitles[k].content)
                                           ELSE subtitles[k].content]
          /\ synth_calls' = [synth_calls EXCEPT ![k] = @ + 1]
          /\ files' = [files EXCEPT ![k] = Audio(text'[k])]
          /\ results' = Append(results, <<subtitles[k].index, k>>)
          /\ Finish(k, [NoValue EXCEPT !.exc = "appended"])
    /\ UNCHANGED << inputs, pc, num_threads, work_queue, submitted, yielded,
                    errors, zip_exists, archive, todo, retval, raised >>

\* lines 36-41, _render_segment on the worker of unit k: the calls are
\* local to the unit, and each of the two external calls returns or raises
RenderSegment(k) ==
    /\ upc[k] = "render"
    /\ \/ \* line 38 raises
          /\ sanitize_text
          /\ norm_calls' = [norm_calls EXCEPT ![k] = @ + 1]
          /\ text' = [text EXCEPT ![k] = subtitles[k].content]
          /\ Finish(k, [NoValue EXCEPT !.exc = "NormalizationError"])
          /\ UNCHANGED << synth_calls, files >>
       \/ \* line 40 raises
          /\ norm_calls' = [norm_calls EXCEPT ![k] = IF sanitize_text THEN @ + 1 ELSE @]
          /\ text' = [text EXCEPT ![k] = IF sanitize_text
                                           THEN Normalized(subtitles[k].content)
                                           ELSE subtitles[k].content]
          /\ synth_calls' = [synth_calls EXCEPT ![k] = @ + 1]
          /\ Finish(k, [NoValue EXCEPT !.exc = "SynthesisError"])
          /\ UNCHANGED files
       \/ \* line 41 returns
          /\ norm_calls' = [norm_calls EXCEPT ![k] = IF sanitize_text THEN @ + 1 ELSE @]
          /\ text' = [text EXCEPT ![k] = IF sanitize_text
                                           THEN Normalized(subtitles[k].content)
                                           ELSE subtitles[k].content]
          /\ synth_calls' = [synth_calls EXCEPT ![k] = @ + 1]
          /\ files' = [files EXCEPT ![k] = Audio(text'[k])]
          /\ Finish(k, [ok |-> TRUE, index |-> subtitles[k].index, path |-> k,
                        exc |-> "none"])
    /\ UNCHANGED << inputs, pc, num_threads, work_queue, submitted, yielded,
                    results, errors, zip_exists, archive, todo, retval, raised >>

\* ------------------------------------------------------ the environment
\* another process removes the artifact between its write and its unlink
ExternalUnlink ==
    /\ pc = "zip_unlink"
    /\ files[Head(todo)[2]] # NoFile
    /\ files' = [files EXCEPT ![Head(todo)[2]] = NoFile]
    /\ UNCHANGED << inputs, pc, num_threads, idle_semaphore, work_queue,
                    submitted, fstate, fvalue, upc, text, yielded, results,
                    errors, zip_exists, archive, todo, retval, raised,
                    norm_calls, synth_calls >>

Next ==
    \/ Construct
    \/ Submit
    \/ \E k \in Units : Collect(k)
    \/ ExitPool
    \/ Check
    \/ ZipWrite
    \/ ZipUnlink
    \/ Return
    \/ \E k \in Units : WorkerStart(k)
    \/ \E k \in Units : RenderSegment(k)
    \/ ExternalUnlink

Spec == Init /\ [][Next]_vars

\* the steps of the calling thread, and those of the pool's threads
MainNext ==
    \/ Construct
    \/ Submit
    \/ \E k \in Units : Collect(k)
    \/ ExitPool
    \/ Check
    \/ ZipWrite
    \/ ZipUnlink
    \/ Return

WorkerNext ==
    \/ \E k \in Units : WorkerStart(k)
    \/ \E k \in Units : RenderSegment(k)

\* calls whose track is in ascending pool order: the scheduling of a call
\* does not read the cue indices
FairInit == Init /\ \A k \in Units : subtitles[k].index = IndexPool[k]

\* threads are scheduled fairly, and every external call returns or
\* raises; the environment is under no obligation
FairSpec ==
    FairInit /\ [][Next]_vars /\ WF_vars(MainNext) /\ WF_vars(WorkerNext)

\* ================================================================ claims
\* the worker pool phase is over: the with block of line 60 was left
PoolPhaseOver ==
    pc \in {"check", "RuntimeError", "zip_write", "zip_unlink", "zip_close",
            "returned", "FileNotFoundError"}

\* the units whose future holds a result / an exception
Succeeded == { k \in Units : fstate[k] = "FINISHED" /\ fvalue[k].ok }

Failed == { k \in Units : fstate[k] = "FINISHED" /\ ~fvalue[k].ok }

\* the positions of the success list / the failure list that belong to cue k
ResultSlots(k) == { i \in 1 .. Len(results) : results[i][1] = subtitles[k].index }

ErrorSlots(k) ==
    { i \in 1 .. Len(errors) : errors[i][2] = ToString(subtitles[k].index) }

\* C1: once the worker pool phase is over every submitted cue has exactly
\* one recorded outcome: successes plus failures number N, and each cue
\* has one entry in exactly one of the two lists.
C1_OneOutcomePerCue ==
    PoolPhaseOver =>
        /\ submitted = Len(subtitles)
        /\ Len(results) + Len(errors) = Len(subtitles)
        /\ \A k \in Units :
              Cardinality(ResultSlots(k)) + Cardinality(ErrorSlots(k)) = 1

C1_Witness ==
    /\ pc = "check"
    /\ Len(subtitles) >= 3
    /\ Len(subtitles) > max_workers
    /\ results # << >>
    /\ errors # << >>

\* C2: an archive is created if and only if no unit failed: the archive
\* file exists only after every result was collected with an empty failure
\* list, a failed batch ends in the aggregate error with no archive file
\* and no archived artifact.
C2_ArchiveIffNoFailure ==
    /\ zip_exists =>
          /\ PoolPhaseOver
          /\ yielded = Units
          /\ errors = << >>
          /\ Failed = {}
    /\ archive # << >> => zip_exists
    /\ (PoolPhaseOver /\ pc # "check") => (zip_exists <=> Failed = {})
    /\ (PoolPhaseOver /\ pc # "check" /\ Failed # {}) =>
          /\ pc = "RuntimeError"
          /\ raised # << >>
          /\ archive = << >>

C2_Witness ==
    /\ pc = "RuntimeError"
    /\ Cardinality(Failed) = 1
    /\ Cardinality(Succeeded) >= 2

\* C3: the call neither raises nor starts the archive step before every
\* submitted unit has finished: when the pool phase is over no unit is
\* queued or running, and every unit was executed, also the units that
\* were running or queued when a failure was first observed.
C3_AllUnitsFinishFirst ==
    PoolPhaseOver =>
        /\ work_queue = << >>
        /\ Running = {}
        /\ \A k \in Units :
              /\ fstate[k] = "FINISHED"
              /\ upc[k] = "done"
              /\ norm_calls[k] + synth_calls[k] >= 1

C3_Witness ==
    /\ pc = "RuntimeError"
    /\ Len(subtitles) > max_workers
    /\ Len(errors) = 1
    /\ ErrorSlots(1) # {}
    /\ Len(results) >= 2

\* C4: at every moment the number of units executing concurrently is at
\* most max_workers, and so is the number of worker threads; surplus
\* units wait in the queue.
C4_AtMostMaxWorkersRunning ==
    max_workers > 0 =>
        /\ Cardinality(Running) <= num_threads
        /\ num_threads <= max_workers

C4_Witness ==
    /\ max_workers >= 2
    /\ Cardinality(Running) = max_workers
    /\ work_queue # << >>

\* C5: an error raised inside a unit never passes the unit boundary: the
\* collecting loop turns it into one failure record carrying the index,
\* start, end and cause of that cue, the sibling units still yield their
\* own outcomes, and no error but the aggregate one ends a batch.
C5_UnitErrorsStayLocal ==
    /\ pc # "propagated"
    /\ \A k \in yielded :
          ~fvalue[k].ok =>
              /\ Cardinality(ErrorSlots(k)) = 1
              /\ \A i \in ErrorSlots(k) :
                    /\ errors[i][4] = subtitles[k].start
                    /\ errors[i][6] = subtitles[k].end
                    /\ errors[i][8] = fvalue[k].exc
    /\ (PoolPhaseOver /\ Failed # {}) =>
          /\ pc \in {"check", "RuntimeError"}
          /\ \A k \in Units : k \in yielded /\ k \in Succeeded \cup Failed

C5_Witness ==
    /\ pc = "RuntimeError"
    /\ \E k \in Failed : fvalue[k].exc = "NormalizationError"
    /\ \E k \in Failed : fvalue[k].exc = "SynthesisError"
    /\ Succeeded # {}

\* the i-th record of the aggregate message, and the number of records
RaisedEntry(i) == SubSeq(raised, 9 * (i - 1) + 1, 9 * (i - 1) + 8)

RaisedCount == (Len(raised) + 1) \div 9

RaisedEntriesOf(k) ==
    { i \in 1 .. RaisedCount : RaisedEntry(i)[2] = ToString(subtitles[k].index) }

\* C6: the aggregate error enumerates every failure: its message is made
\* of one record per failed cue, separated by "; ", each with that cue's
\* index, start, end and cause, and holds no record of a cue that succeeded.
C6_AggregateListsEveryFailure ==
    pc = "RuntimeError" =>
        /\ Failed # {}
        /\ Len(raised) = 9 * Cardinality(Failed) - 1
        /\ \A i \in 1 .. Cardinality(Failed) - 1 : raised[9 * i] = "; "
        /\ \A k \in Failed :
              /\ Cardinality(RaisedEntriesOf(k)) = 1
              /\ \A i \in RaisedEntriesOf(k) :
                    /\ RaisedEntry(i)[1] = "Failed to render subtitle "
                    /\ RaisedEntry(i)[4] = subtitles[k].start
                    /\ RaisedEntry(i)[6] = subtitles[k].end
                    /\ RaisedEntry(i)[8] = fvalue[k].exc
        /\ \A k \in Succeeded : RaisedEntriesOf(k) = {}

C6_Witness ==
    /\ pc = "RuntimeError"
    /\ Len(subtitles) >= 3
    /\ Cardinality(Failed) = 2
    /\ Succeeded = {2}
    /\ errors[1][2] = ToString(subtitles[3].index)

\* the position of the first dot of an entry name
DotPos(name) ==
    CHOOSE i \in 1 .. Len(name) :
        name[i] = "." /\ \A j \in 1 .. i - 1 : name[j] # "."

IsNumeral(s) ==
    s # << >> /\ \A i \in 1 .. Len(s) : \E d \in 0 .. 9 : DigitChar(d) = s[i]

RECURSIVE NumeralValue(_)
\* the number a decimal numeral denotes
NumeralValue(s) ==
    IF s = << >> THEN 0
    ELSE 10 * NumeralValue(SubSeq(s, 1, Len(s) - 1))
           + (CHOOSE d \in 0 .. 9 : DigitChar(d) = s[Len(s)])

\* the cue index an archive entry is named after
EntryIndex(e) == NumeralValue(SubSeq(e.name, 1, DotPos(e.name) - 1))

\* C7: the archive entries are written in strictly ascending cue-index
\* order, whatever order the units completed in.
C7_EntriesAscending ==
    \A i, j \in 1 .. Len(archive) :
        i < j => EntryIndex(archive[i]) < EntryIndex(archive[j])

C7_Witness ==
    /\ pc = "returned"
    /\ Len(archive) = 3
    /\ subtitles[1].index > subtitles[2].index
    /\ subtitles[1].index > subtitles[3].index
    /\ results[1][1] = subtitles[1].index

\* name is the index zero-padded to four digits, a dot, the extension
WellNamed(name, index) ==
    /\ \E i \in 1 .. Len(name) : name[i] = "."
    /\ LET stem == SubSeq(name, 1, DotPos(name) - 1)
           ext == SubSeq(name, DotPos(name) + 1, Len(name))
       IN /\ IsNumeral(stem)
          /\ NumeralValue(stem) = index
          /\ Len(stem) >= 4
          /\ Len(stem) > 4 => stem[1] # "0"
          /\ ext = response_format

C9_NonPositiveWorkersRejected ==
    max_workers <= 0 =>
        /\ pc \in {"call", "ValueError"}
        /\ submitted = 0
        /\ num_threads = 0
        /\ \A k \in Units :
              /\ fstate[k] = "none"
              /\ upc[k] = "none"
              /\ norm_calls[k] = 0
              /\ synth_calls[k] = 0
              /\ files[k] = NoFile
        /\ ~zip_exists

C9_Witness ==
    /\ pc = "ValueError"
    /\ max_workers = 0
    /\ Len(subtitles) >= 2

\* the number of cues whose index is not greater than that of cue k
Rank(k) == Cardinality({ j \in Units : subtitles[j].index <= subtitles[k].index })

\* the archive as a function of the call's inputs alone
ExpectedArchive ==
    [r \in 1 .. Len(subtitles) |->
        LET k == CHOOSE u \in Units : Rank(u) = r
        IN [name |-> ArcName(subtitles[k].index, response_format),
            content |-> Audio(IF sanitize_text
                                THEN Normalized(subtitles[k].content)
                                ELSE subtitles[k].content)]]

\* C10: the final archive depends on the inputs only: for every positive
\* worker count and every interleaving the entry names, the entry
\* contents, their order and the entry count are the same.
C10_ArchiveIndependentOfSchedule ==
    pc = "returned" =>
        /\ archive = ExpectedArchive
        /\ retval[2] = Len(ExpectedArchive)

C10_Witness ==
    /\ pc = "returned"
    /\ max_workers >= 2
    /\ num_threads >= 2
    /\ Len(results) = 3
    /\ results[1][2] = 2
    /\ results[2][2] = 3

\* the units whose artifact is in the archive / is gone from the disk
Archived == { archive[i].content[3] : i \in 1 .. Len(archive) }

Deleted == { k \in Succeeded : files[k] = NoFile }

\* C11: in a successful batch an artifact is deleted right after its own
\* entry was written and never before: a deleted artifact is an archived
\* one, between two iterations of the archive loop the deleted artifacts
\* are exactly the archived ones, inside an iteration only the entry just
\* written is still on disk, nothing remains when the call returns, and a
\* file already missing at deletion time raises no error.
C11_DeletedRightAfterArchived ==
    /\ Deleted \subseteq Archived
    /\ pc \in {"zip_write", "zip_close", "returned"} => Deleted = Archived
    /\ pc = "zip_unlink" =>
          /\ Archived \ Deleted \subseteq {Head(todo)[2]}
          /\ Head(todo)[2] \in Archived
    /\ pc = "returned" =>
          /\ \A k \in Units : files[k] = NoFile
          /\ Archived = Units
    /\ pc # "FileNotFoundError"

C11_Witness ==
    /\ pc = "zip_unlink"
    /\ Len(archive) = 2
    /\ Len(todo) = 2
    /\ files[Head(todo)[2]] = NoFile

\* the call has ended with every unit finished
BatchEnded ==
    /\ pc \in {"returned", "RuntimeError"}
    /\ \A k \in Units : fstate[k] = "FINISHED"

\* C12: under fair scheduling, with terminating external calls, a call
\* with a positive max_workers eventually returns or raises the aggregate
\* error with every unit finished, and no submitted unit stays queued.
C12_BatchTerminates ==
    /\ (max_workers > 0) => <>BatchEnded
    /\ \A k \in 1 .. MaxCues :
          (k \in Units /\ fstate[k] = "PENDING") ~> (k \in Units /\ fstate[k] = "FINISHED")

C12_Witness ==
    /\ pc = "RuntimeError"
    /\ Len(subtitles) >= 3
    /\ max_workers = 1
    /\ Succeeded # {}

\* the positions of the archive whose entry is named n
EntriesNamed(n) == { i \in 1 .. Len(archive) : archive[i].name = n }

\* what the synthesis call of unit k returned: the audio of the text it
\* was given, identified by the unit
SynthReturned(k) == <<"audio", text[k][1], k>>

\* C13: in a successful batch, the entry read from the archive under the
\* name of cue index i holds the content of the artifact that the
\* synthesis call made for that cue returned; while the archive is
\* written every entry already does.
C13_EntryHoldsSynthesisedArtifact ==
    /\ \A i \in 1 .. Len(archive) :
          \E k \in Succeeded :
             /\ archive[i].name = ArcName(subtitles[k].index, response_format)
             /\ archive[i].content = SynthReturned(k)
             /\ synth_calls[k] = 1
    /\ pc = "returned" =>
          \A k \in Units :
             /\ Cardinality(EntriesNamed(ArcName(subtitles[k].index, response_format))) = 1
             /\ \A i \in EntriesNamed(ArcName(subtitles[k].index, response_format)) :
                   archive[i].content = SynthReturned(k)

C13_Witness ==
    /\ pc = "returned"
    /\ Len(archive) = 3
    /\ archive[1].content[3] = 3
    /\ archive[3].content[3] = 2
    /\ results[1][2] = 2

\* the set of collected (index, artifact) results, their order forgotten
ResultSet == { results[i] : i \in 1 .. Len(results) }

RECURSIVE LeastFirst(_)
\* the members of a set of results, least index first
LeastFirst(S) ==
    IF S = {} THEN << >>
    ELSE LET m == CHOOSE p \in S : \A q \in S : p[1] <= q[1]
         IN <<m>> \o LeastFirst(S \ {m})

\* the entry names that packaging gives to a set of results
PackedNames(S) ==
    [i \in 1 .. Cardinality(S) |-> ArcName(LeastFirst(S)[i][1], response_format)]

C15_NoArtifactSurvivesTheCall ==
    pc \in {"returned", "RuntimeError"} => \A k \in Units : files[k] = NoFile

\* the step appends one outcome, that of unit k, to one of the two lists
AppendsOutcomeOf(k) ==
    \/ /\ results' = Append(results, <<subtitles[k].index, k>>)
       /\ errors' = errors
    \/ /\ errors' = Append(errors, ErrorMessage(subtitles[k], fvalue[k].exc))
       /\ results' = results

\* C16: every step that changes the success list or the failure list is
\* a step of the collecting loop of the calling thread: it appends the
\* one outcome of a finished unit not yet collected, and no worker moves
\* in that step; a worker's step leaves both lists as they are.
C16_OnlyTheCollectorAppends ==
    [][ (results' # results \/ errors' # errors) =>
          /\ pc = "collect"
          /\ pc' = "collect"
          /\ << fstate, fvalue, upc, work_queue >>' = << fstate, fvalue, upc, work_queue >>
          /\ \E k \in Units \ yielded :
                /\ fstate[k] = "FINISHED"
                /\ yielded' = yielded \cup {k}
                /\ AppendsOutcomeOf(k) ]_vars

C16_Witness ==
    /\ pc = "collect"
    /\ Len(results) >= 1
    /\ Len(errors) >= 1
    /\ Running # {}

\* the failure list holds a record of unit k with the given cause, made
\* of the fixed parts and the cue's index and time range
HasFailureRecord(k, cause) ==
    \E i \in 1 .. Len(errors) :
       errors[i] = << "Failed to render subtitle ", ToString(subtitles[k].index),
                      " (", subtitles[k].start, " -> ", subtitles[k].end, "): ",
                      cause >>

\* C17: within one unit, with sanitize on the synthesis call is preceded
\* by one normalization call and receives the normalized text; a failed
\* normalization means no synthesis call and no artifact for that cue,
\* and a failure record of the same form as for a failed synthesis; with
\* sanitize off normalization is never called and synthesis receives
\* the raw cue text.
C17_NormalizeThenSynthesize ==
    \A k \in Units :
       /\ sanitize_text /\ synth_calls[k] >= 1 =>
             /\ norm_calls[k] = 1
             /\ text[k] = <<"norm", k>>
       /\ fvalue[k].exc = "NormalizationError" =>
             /\ sanitize_text
             /\ norm_calls[k] = 1
             /\ synth_calls[k] = 0
             /\ files[k] = NoFile
       /\ ~sanitize_text =>
             /\ norm_calls[k] = 0
             /\ synth_calls[k] >= 1 => text[k] = <<"raw", k>>
       /\ k \in yielded /\ fvalue[k].exc \in {"NormalizationError", "SynthesisError"} =>
             HasFailureRecord(k, fvalue[k].exc)

C17_Witness ==
    /\ pc = "RuntimeError"
    /\ sanitize_text
    /\ \E j, k, m \in Units :
          /\ fvalue[j].exc = "NormalizationError"
          /\ fvalue[k].exc = "SynthesisError"
          /\ fvalue[m].ok /\ text[m] = <<"norm", m>>

\* the number of work items of unit k waiting in the pool's queue
QueuedCount(k) == Cardinality({ i \in 1 .. Len(work_queue) : work_queue[i] = k })

\* C18: in one batch the synthesis backend is called at most once per
\* submitted cue, and exactly once for a finished unit whose
\* normalization was off or succeeded, a failed synthesis included; no
\* cue is submitted twice, and a unit that has started is not queued again.
C18_SynthesisAtMostOncePerCue ==
    /\ submitted <= Len(subtitles)
    /\ \A k \in Units :
          /\ synth_calls[k] <= 1
          /\ norm_calls[k] <= 1
          /\ fstate[k] = "FINISHED" /\ fvalue[k].exc # "NormalizationError" =>
                synth_calls[k] = 1
          /\ fstate[k] = "FINISHED" /\ ~sanitize_text => synth_calls[k] = 1
          /\ QueuedCount(k) <= 1
          /\ QueuedCount(k) = 1 =>
                fstate[k] = "PENDING" /\ synth_calls[k] = 0 /\ norm_calls[k] = 0
          /\ fstate[k] \in {"RUNNING", "FINISHED"} => QueuedCount(k) = 0

C18_Witness ==
    /\ pc = "RuntimeError"
    /\ Len(subtitles) >= 2
    /\ \E k \in Units : fvalue[k].exc = "SynthesisError" /\ synth_calls[k] = 1
    /\ \E k \in Units : fvalue[k].ok /\ synth_calls[k] = 1

\* the units whose artifact exists on disk
OnDisk == { k \in Units : files[k] # NoFile }

\* C19: a batch that failed deletes no artifact and archives none: when
\* the aggregate error is raised, the artifacts on disk are exactly those
\* of the units that succeeded, each as synthesis wrote it, and no
\* archive file was created.
C19_FailedBatchLeavesArtifacts ==
    pc = "RuntimeError" =>
       /\ OnDisk = Succeeded
       /\ \A k \in Succeeded : files[k] = <<"audio", text[k][1], k>>
       /\ archive = << >>
       /\ ~zip_exists
       /\ todo = << >>

C19_Witness ==
    /\ pc = "RuntimeError"
    /\ Cardinality(Succeeded) = 2
    /\ Cardinality(OnDisk) = 2
    /\ Cardinality(Failed) = 1

\* the failure record that the cue at position k and its outcome determine
OutcomeRecord(k) ==
    << "Failed to render subtitle ", ToString(subtitles[k].index), " (",
       subtitles[k].start, " -> ", subtitles[k].end, "): ", fvalue[k].exc >>

\* the records of the aggregate message, as a set
RaisedRecords == { RaisedEntry(i) : i \in 1 .. RaisedCount }

====
